---------------------------- MODULE Spec2Model ----------------------------
(***************************************************************************)
(* cool-branch: worktree lifecycle (add / rm / rename / list), the folder  *)
(* name mapping file and the layered configuration that feeds them.        *)
(*                                                                         *)
(* The file system and the git repository are the state; every command    *)
(* invocation is one action (the program is single-threaded and runs one   *)
(* command per process).  git itself is the external service: its         *)
(* outcome is computed from the repository state where the state decides  *)
(* it, and is an input of the action where it does not (a failing move,   *)
(* a failing rename back, a failing branch deletion, a setup script's     *)
(* exit status).                                                           *)
(***************************************************************************)
EXTENDS Integers, Sequences, FiniteSets, TLC

----------------------------------------------------------------------------
(* Bounds of the model                                                     *)

\* largest numeric suffix a branch name carries (feature-0 .. feature-MaxNum)
MaxNum == 2
\* most linked worktrees registered at one time
MaxWorktrees == 2
\* most directories under the base that were made by hand (not by git)
MaxForeign == 1
MaxInvocations == 3

----------------------------------------------------------------------------
(* Values                                                                  *)

\* JavaScript undefined / null
NoValue == "<undefined>"
\* a JSON value that is present but is not a string
NonString == "<non-string>"

\* Branch names: stem, or stem-<digits>.  num = -1 stands for "no numeric
\* suffix"; leading zeros of the suffix are not represented.
NoNum == -1
Stems == {"main", "feature", "feat/feature"}
Names == [stem : Stems, num : NoNum..MaxNum]
Name(s, n) == [stem |-> s, num |-> n]
\* a name as the string it stands for
NameString(n) ==
    IF n.num = NoNum THEN n.stem ELSE n.stem \o "-" \o ToString(n.num)
\* path.dirname of a stem, with its trailing separator: "" when the stem
\* has no "/"
StemDir(s) ==
    CASE s = "feat/feature" -> "feat/"
      [] s = "feat/feat/feature" -> "feat/feat/"
      [] OTHER -> ""
\* path.basename of a stem
StemBase(s) ==
    IF s \in {"feat/feature", "feat/feat/feature"} THEN "feature" ELSE s

\* the branch checked out in the main checkout
MainBranch == Name("main", NoNum)
\* an optional branch-name argument that was not given
NoName == Name(NoValue, NoNum)
\* branches that exist on the remote "origin" (refs/remotes/origin/*)
RemoteBranches == {Name("feature", 2)}

\* the main checkout's root directory and path.basename of it
MainRoot == "/home/u/repo"
MainRootBasename == "repo"

\* cli.ts DEFAULT_BASE
DEFAULT_BASE == "~/.worktrees"
CliBase == "/cli-base"
CfgBase == "/cfg-base"
LocalBase == "/local-base"
CustomBase == "/custom-base"
Bases == {DEFAULT_BASE, CliBase, CfgBase, LocalBase, CustomBase}

\* folder names: the repository root's base name and config-given dirnames
\* (a dirname is a non-empty string: the code tests it for truthiness)
CfgDirname == "team"
LocalDirname == "mine"
CustomDirname == "shared"
\* a dirname that the repository root's base name is a proper prefix of
SiblingDirname == "repo-archive"
Folders == {MainRootBasename, CfgDirname, LocalDirname, CustomDirname,
            SiblingDirname}

\* <base>/<folder>/<leaf>
Paths == [base : Bases, folder : Folders, leaf : Names]
\* <base>/<folder>
BaseDirs == [base : Bases, folder : Folders]

\* what a directory under the base holds: the checked-out tree of a
\* worktree (with its .git link), a foreign file, an uncommitted file
Tree == "tree"
Foreign == "file.txt"
Untracked == "uncommitted.txt"
Files == {Tree, Foreign, Untracked}

\* the settings directory <dir>/.cool-branch of a checkout: whether it
\* exists and the names of its entries
SettingsDir(exists, entries, config, localConfig) ==
    [exists |-> exists, entries |-> entries, config |-> config,
     local |-> localConfig]

\* URL of the remote "origin" when one is configured
OriginUrl == "git@host:repo.git"

\* Places a command can be run from: the main checkout's root, a directory
\* outside every repository, or the root of a linked worktree.
NoPath == [base |-> NoValue, folder |-> NoValue, leaf |-> MainBranch]
InMain == [at |-> "main", path |-> NoPath]
\* the main checkout's root directory as a path (it lies under no base)
RepoRootPath == [base |-> MainRoot, folder |-> NoValue, leaf |-> MainBranch]
Outside == [at |-> "outside", path |-> NoPath]
InWorktree(p) == [at |-> "worktree", path |-> p]
\* a directory below the root of the linked worktree at p
InSubdir(p) == [at |-> "subdir", path |-> p]

\* .cool-branch/config.json, config.local.json, the --config file: absent
\* ("none"), not JSON ("bad"), or a JSON object with optional keys base and
\* dirname ("json"); a --config path can also be a directory that holds no
\* config.json ("nocfg")
CfgValues == {NoValue, NonString}
EmptyCfg == [base |-> NoValue, dirname |-> NoValue]
CfgFile(kind, b, d) == [kind |-> kind, base |-> b, dirname |-> d]
NoFile == CfgFile("none", NoValue, NoValue)
Malformed == CfgFile("bad", NoValue, NoValue)
NoConfigJson == CfgFile("nocfg", NoValue, NoValue)

----------------------------------------------------------------------------
VARIABLES
    branches,     \* local branches (refs/heads/*)
    wt,           \* linked worktrees registered with git: path -> branch
    dirs,         \* directories that exist under the bases: path -> set of Files
    settings,     \* <worktree>/.cool-branch of the worktree directories
    baseDirs,     \* the <base>/<folder> directories that exist
    mapping,      \* <base>/cool-branch.json per base: NoFile or repoId -> folder
    origin,       \* URL of the remote "origin", NoValue when none is configured
    trackedCfg,   \* <repo>/.cool-branch/config.json
    localCfg,     \* <repo>/.cool-branch/config.local.json
    customCfg,    \* what the --config path points at
    coolBranchDir,\* directory listing of <repo>/.cool-branch (setup scripts)
    rootDir,      \* directory listing of <repo> (legacy setup scripts)
    committed,    \* the entries of .cool-branch that are tracked by git
    committedCfg, \* .cool-branch/config.json as committed (NoFile: untracked)
    race,         \* invocations that run at the same time on one mapping file
    last,         \* the last invocation: command, arguments, exit, output
    invocations   \* number of steps of the session so far

vars == <<branches, wt, dirs, settings, baseDirs, mapping, origin, trackedCfg,
          localCfg, customCfg, coolBranchDir, rootDir, committed,
          committedCfg, race, last, invocations>>

gitVars == <<branches, wt>>
fsVars == <<dirs, settings, baseDirs, mapping>>
cfgVars == <<origin, trackedCfg, localCfg, customCfg, coolBranchDir, rootDir,
             committed, committedCfg>>


----------------------------------------------------------------------------
(* Configuration files and their resolution                                *)

\* typeof v === 'string'
IsString(v) == v \notin CfgValues

\* config.ts parseLocalConfigFile: a missing or unparsable file is the empty
\* object; of a parsed object only the string-valued known keys are kept
parseLocalConfigFile(file) ==
    IF file.kind # "json"
    THEN EmptyCfg
    ELSE [base    |-> IF IsString(file.base) THEN file.base ELSE NoValue,
          dirname |-> IF IsString(file.dirname) THEN file.dirname ELSE NoValue]

\* a merge in which the tracked file's value wins for a shared key
Spread_firstWins(a, b) ==
    [base    |-> IF a.base # NoValue THEN a.base ELSE b.base,
     dirname |-> IF a.dirname # NoValue THEN a.dirname ELSE b.dirname]

\* the object spread { ...a, ...b }: b's own keys replace a's
Spread(a, b) ==
    [base    |-> IF b.base # NoValue THEN b.base ELSE a.base,
     dirname |-> IF b.dirname # NoValue THEN b.dirname ELSE a.dirname]

\* git rev-parse --show-toplevel run in cwd: null (Outside) outside a
\* repository, else the root of the checkout cwd is in
getRepoRoot(cwd) ==
    IF cwd.at = "outside" THEN Outside
    ELSE IF cwd.at = "main" THEN InMain
    ELSE [at |-> "worktree", path |-> cwd.path]

\* <repoRoot>/.cool-branch/config.json and config.local.json of a checkout
ConfigJsonAt(root) ==
    IF root.at = "main" THEN trackedCfg
    ELSE IF root.path \in DOMAIN settings THEN settings[root.path].config
    ELSE NoFile
ConfigLocalJsonAt(root) ==
    IF root.at = "main" THEN localCfg
    ELSE IF root.path \in DOMAIN settings THEN settings[root.path].local
    ELSE NoFile

\* config.ts readLocalConfig: config.json overlaid with config.local.json,
\* both read from the root of the checkout cwd is in
readLocalConfig(cwd) ==
    IF getRepoRoot(cwd) = Outside
    THEN EmptyCfg
    ELSE Spread(parseLocalConfigFile(ConfigJsonAt(getRepoRoot(cwd))),
                parseLocalConfigFile(ConfigLocalJsonAt(getRepoRoot(cwd))))

\* config.ts loadCustomConfig(path): the file (or <path>/config.json) parsed
\* like a per-repository config file; an error when the path does not
\* exist, is a directory without config.json, or cannot be parsed
loadCustomConfig(file) ==
    IF file.kind # "json"
    THEN [config |-> EmptyCfg, error |-> TRUE]
    ELSE [config |-> parseLocalConfigFile(file), error |-> FALSE]

\* cli.ts parseArgs, the flags that bear on the configuration:
\* --base <path> (NoValue when not given) and --config given or not
CliArgs == [base : {NoValue, CliBase}, config : BOOLEAN]
NoFlags == [base |-> NoValue, config |-> FALSE]

\* index.ts main, lines 99-119: the per-repository config the commands get
mainLocalConfig(args, cwd) ==
    IF args.config THEN loadCustomConfig(customCfg).config ELSE readLocalConfig(cwd)

\* index.ts main, lines 99-119: error (exit 1), effective base, local dirname
main(args, cwd) ==
    LET baseExplicit == args.base # NoValue
        argsBase     == IF baseExplicit THEN args.base ELSE DEFAULT_BASE
        localConfig  == mainLocalConfig(args, cwd)
    IN  [error        |-> args.config /\ loadCustomConfig(customCfg).error,
         base         |-> IF baseExplicit THEN argsBase
                          ELSE IF localConfig.base # NoValue THEN localConfig.base
                          ELSE argsBase,
         localDirname |-> localConfig.dirname]


----------------------------------------------------------------------------
(* The folder-name mapping file <base>/cool-branch.json                    *)

\* keys of the mapping file: the origin URL, or a repository root path
IdOfUrl(u) == [url |-> u, root |-> Outside]
IdOfRoot(r) == [url |-> NoValue, root |-> r]

EmptyFn == [x \in {} |-> NoValue]
NoMappingFile == [exists |-> FALSE, entries |-> EmptyFn, parses |-> TRUE]
\* a mapping file that holds the entries of a JSON object
MappingFile(entries) == [exists |-> TRUE, entries |-> entries, parses |-> TRUE]
\* a mapping file whose content is not JSON
MalformedMappingFile == [exists |-> TRUE, entries |-> EmptyFn, parses |-> FALSE]
Restrict(f, S) == [x \in S |-> f[x]]
Range(f) == {f[x] : x \in DOMAIN f}

\* config.ts readConfig: {} when the file does not exist
readConfig(maps, base) == maps[base].entries
\* config.ts readConfig, lines 93-101: a file that exists and JSON.parse
\* rejects makes readConfig throw
readConfigThrows(maps, base) == maps[base].exists /\ ~maps[base].parses

\* a write that merges what it is given into what the file holds
writeConfig_merging(maps, base, config) ==
    [maps EXCEPT ![base] = MappingFile(config @@ maps[base].entries)]
\* config.ts writeConfig
writeConfig(maps, base, config) ==
    [maps EXCEPT ![base] = MappingFile(config)]

\* config[repoId], undefined when the key is missing
Lookup(config, id) == IF id \in DOMAIN config THEN config[id] ELSE NoValue

\* config.ts getRepoIdentifier: the origin URL, else the repository root
getRepoIdentifier(cwd) ==
    IF origin # NoValue THEN IdOfUrl(origin) ELSE IdOfRoot(getRepoRoot(cwd))

\* a resolver that takes every checkout's root for the main checkout's
basename_ofMainRoot(root) == MainRootBasename
\* path.basename(repoRoot): of the main checkout's root, or of the
\* worktree directory <base>/<folder>/<branch>
basename(root) ==
    IF root.at = "main" THEN MainRootBasename
    ELSE NameString(Name(StemBase(root.path.leaf.stem), root.path.leaf.num))

\* a resolver that persists whatever name it resolves, a config-given
\* dirname included
getRepoFolderName_persistsDirname(maps, base, cwd, localDirname) ==
    LET repoId == getRepoIdentifier(cwd)
        config == readConfig(maps, base)
        folderName == IF localDirname # NoValue THEN localDirname
                      ELSE IF Lookup(config, repoId) # NoValue THEN config[repoId]
                      ELSE basename(getRepoRoot(cwd))
    IN  [name |-> folderName,
         mapping |-> writeConfig(maps, base, (repoId :> folderName) @@ config)]

\* a resolver that writes a file that holds its own entry only
getRepoFolderName_forgetsOthers(maps, base, cwd, localDirname) ==
    IF localDirname # NoValue
    THEN [name |-> localDirname, mapping |-> maps]
    ELSE LET repoId == getRepoIdentifier(cwd)
             config == readConfig(maps, base)
         IN  IF Lookup(config, repoId) # NoValue
             THEN [name |-> config[repoId], mapping |-> maps]
             ELSE LET folderName == basename(getRepoRoot(cwd))
                  IN  [name    |-> folderName,
                       mapping |-> writeConfig(maps, base, repoId :> folderName)]

\* config.ts getRepoFolderName, lines 157-163: the mapping file is read
\* unless a dirname is given, and readConfig's exception is not caught
getRepoFolderNameThrows(maps, base, localDirname) ==
    localDirname = NoValue /\ readConfigThrows(maps, base)

\* config.ts getRepoFolderName: the folder name and the mapping files as
\* the call leaves them
getRepoFolderName(maps, base, cwd, localDirname) ==
    IF localDirname # NoValue
    THEN [name |-> localDirname, mapping |-> maps]
    ELSE LET repoId == getRepoIdentifier(cwd)
             config == readConfig(maps, base)
         IN  IF Lookup(config, repoId) # NoValue
             THEN [name |-> config[repoId], mapping |-> maps]
             ELSE LET folderName == basename(getRepoRoot(cwd))
                  IN  [name    |-> folderName,
                       mapping |-> writeConfig(maps, base,
                                       (repoId :> folderName) @@ config)]

\* config.ts getWorktreeBasePath: <base>/<folder>, created when missing
getWorktreeBasePath(maps, bds, base, cwd, localDirname) ==
    LET r == getRepoFolderName(maps, base, cwd, localDirname)
        worktreeBase == [base |-> base, folder |-> r.name]
    IN  [path |-> worktreeBase, mapping |-> r.mapping,
         baseDirs |-> bds \cup {worktreeBase}]

\* config.ts getWorktreePath: <base>/<folder>/<branch>
getWorktreePath(maps, base, branchName, cwd, localDirname) ==
    LET r == getRepoFolderName(maps, base, cwd, localDirname)
    IN  [path    |-> [base |-> base, folder |-> r.name, leaf |-> branchName],
         mapping |-> r.mapping]

----------------------------------------------------------------------------
(* git, on g = [branches, wt, dirs, settings]                              *)

DirOf(g, p) == IF p \in DOMAIN g.dirs THEN g.dirs[p] ELSE {}
IsWorktreeDir(g, p) == p \in DOMAIN g.dirs /\ Tree \in g.dirs[p]

\* branches checked out somewhere: in the main checkout or a linked worktree
CheckedOut(g) == {MainBranch} \cup Range(g.wt)

\* git worktree prune: registrations whose directory is no worktree go
prune(g) ==
    [g EXCEPT !.wt = Restrict(g.wt, {p \in DOMAIN g.wt : IsWorktreeDir(g, p)})]

\* a removal that never looks at what the worktree holds
removeWorktreeOk_ignoresContent(g, p, force) ==
    p \in DOMAIN g.wt /\ IsWorktreeDir(g, p)
\* git.ts removeWorktree: git worktree remove <path> [--force]; without
\* --force git refuses a worktree with modified or untracked files
removeWorktreeOk(g, p, force) ==
    /\ p \in DOMAIN g.wt
    /\ IsWorktreeDir(g, p)
    /\ force \/ g.dirs[p] = {Tree}
\* a removal that drops the registration and leaves the directory
removeWorktree_keepsDirectory(g, p) ==
    [g EXCEPT !.wt = Restrict(g.wt, DOMAIN g.wt \ {p})]
removeWorktree(g, p) ==
    [g EXCEPT !.wt = Restrict(g.wt, DOMAIN g.wt \ {p}),
              !.dirs = Restrict(g.dirs, DOMAIN g.dirs \ {p}),
              !.settings = Restrict(g.settings, DOMAIN g.settings \ {p})]

\* add.ts removeDirectoryRecursive
removeDirectoryRecursive(g, p) ==
    [g EXCEPT !.dirs = Restrict(g.dirs, DOMAIN g.dirs \ {p}),
              !.settings = Restrict(g.settings, DOMAIN g.settings \ {p})]

\* a git that creates every worktree it is asked for
addWorktreeOk_always(g, p, b, createBranch) == TRUE
\* a test that takes every directory for empty
isNonEmptyDirectory_never(g, p) == FALSE
\* add.ts isNonEmptyDirectory
isNonEmptyDirectory(g, p) == p \in DOMAIN g.dirs /\ g.dirs[p] # {}

\* git.ts branchExists: refs/heads/<name>
branchExists(g, b) == b \in g.branches

\* git.ts addWorktree: git worktree add [-b <branch>] <path> [<branch>]
addWorktreeOk(g, p, b, createBranch) ==
    /\ ~isNonEmptyDirectory(g, p)
    /\ p \notin DOMAIN g.wt
    /\ IF createBranch
       THEN b \notin g.branches
       ELSE b \in g.branches \cup RemoteBranches /\ b \notin CheckedOut(g)
\* the checkout brings the tracked entries of .cool-branch with it
addWorktree(g, p, b) ==
    [branches |-> g.branches \cup {b},
     wt       |-> (p :> b) @@ g.wt,
     dirs     |-> (p :> {Tree}) @@ g.dirs,
     settings |-> (p :> SettingsDir(committed # {}, committed, committedCfg,
                                    NoFile))
                  @@ g.settings]


----------------------------------------------------------------------------
(* Setup scripts                                                            *)

\* file names that begin with "setup." (and are not "setup." itself)
SetupDotNames == {"setup.sh", "setup.local", "setup.local.sh"}
\* file names that begin with "cool-branch." (and are not "cool-branch.")
LegacyDotNames == {"cool-branch.sh"}

\* for (const entry of entries) { if (...) return entry } return null:
\* the entry at the least of the matching indices, else NoValue
FirstEntry(entries, hits) ==
    IF hits = {} THEN NoValue
    ELSE entries[CHOOSE i \in hits : \A j \in hits : i <= j]

\* add.ts findSetupScriptInCoolBranchDir: setup or setup.*
IsSetupEntry(entry) == entry = "setup" \/ entry \in SetupDotNames
findSetupScriptInCoolBranchDir(entries) ==
    FirstEntry(entries, {i \in 1..Len(entries) : IsSetupEntry(entries[i])})

\* add.ts findLegacySetupScript: cool-branch or cool-branch.* in the root
IsLegacyEntry(entry) == entry = "cool-branch" \/ entry \in LegacyDotNames
findLegacySetupScript(entries) ==
    FirstEntry(entries, {i \in 1..Len(entries) : IsLegacyEntry(entries[i])})

\* add.ts findSetupScript(repoRoot): .cool-branch first, then the root
findSetupScript(coolBranchEntries, rootEntries) ==
    LET newScript == findSetupScriptInCoolBranchDir(coolBranchEntries)
    IN  IF newScript # NoValue THEN newScript
        ELSE findLegacySetupScript(rootEntries)

\* setup.ts findLocalSetupScript: setup.local or setup.local.*
SetupLocalDotNames == {"setup.local.sh"}
IsLocalSetupEntry(entry) ==
    entry = "setup.local" \/ entry \in SetupLocalDotNames
\* setup.ts findRegularSetupScript: setup or setup.*, but no name that
\* begins with setup.local
IsRegularSetupEntry(entry) ==
    /\ entry = "setup" \/ entry \in SetupDotNames
    /\ entry \notin {"setup.local"} \cup SetupLocalDotNames

\* fs.existsSync(path.resolve(repoRoot, <--setup value>))
SetupFileExists(name, rootEntries) ==
    \E i \in 1..Len(rootEntries) : rootEntries[i] = name

\* the modelled names of the form X.local or X.local.<ext>
LocalNames == {"setup.local", "setup.local.sh", "config.local.json"}
IsLocalEntry(entry) == entry \in LocalNames

\* --copy-config <all|none|local>; without the flag the mode is local
CopyModes == {"all", "none", "local"}
copyMode(copyConfig) == IF copyConfig \in CopyModes THEN copyConfig ELSE "local"

\* the entries of the source directory that a mode selects
copyEntries_skipsLocalExt(mode, sourceEntries) ==
    IF mode = "none" THEN {}
    ELSE IF mode = "all" THEN sourceEntries
    ELSE {e \in sourceEntries : e = "setup.local"}
copyEntries(mode, sourceEntries) ==
    IF mode = "none" THEN {}
    ELSE IF mode = "all" THEN sourceEntries
    ELSE {e \in sourceEntries : IsLocalEntry(e)}

\* copy(sourceDir, destDir, mode): the destination settings directory
\* after the copy; it is created when something is copied into it
copyConfigFiles(mode, source, dest) ==
    LET copied == copyEntries(mode, source.entries)
    IN  SettingsDir(dest.exists \/ copied # {}, dest.entries \cup copied,
                    IF "config.json" \in copied THEN source.config
                    ELSE dest.config,
                    IF "config.local.json" \in copied THEN source.local
                    ELSE dest.local)

----------------------------------------------------------------------------
(* The record of an invocation                                             *)

NoBaseDir == [base |-> NoValue, folder |-> NoValue]
NoSnapshot == [valid |-> FALSE, dirs |-> EmptyFn, baseDirs |-> {}]
NoLast ==
    [cmd |-> "none", flags |-> NoFlags, base |-> NoValue, scriptOk |-> TRUE,
     cwd |-> Outside, branch |-> MainBranch, force |-> FALSE,
     exit |-> 0, out |-> {}, dirname |-> NoValue, path |-> NoPath,
     script |-> NoValue, scriptCwd |-> NoPath, scriptArg |-> NoPath,
     newBranch |-> MainBranch, newPath |-> NoPath,
     renameOk |-> TRUE, moveOk |-> TRUE, revertOk |-> TRUE,
     roundTrip |-> NoSnapshot,
     setup |-> NoValue, noSetup |-> FALSE, copyConfig |-> NoValue,
     created |-> FALSE, explicit |-> FALSE, deleted |-> FALSE,
     arg1 |-> NoName, removed |-> FALSE, createBranch |-> FALSE,
     managedBase |-> NoBaseDir]

Git == [branches |-> branches, wt |-> wt, dirs |-> dirs, settings |-> settings]

\* no invocations run at the same time
NoRace == [pc |-> EmptyFn, op |-> EmptyFn, snap |-> EmptyFn, order |-> <<>>]

\* the git and file-system state after a command that left g behind
Leave(g, maps, bds) ==
    /\ branches' = g.branches
    /\ wt' = g.wt
    /\ dirs' = g.dirs
    /\ settings' = g.settings
    /\ mapping' = maps
    /\ baseDirs' = bds

----------------------------------------------------------------------------
(* cool-branch list                                                         *)

\* list.ts listCommand: reads branches and worktrees, writes nothing
List(args, cwd) ==
    LET cfg == main(args, cwd)
        rec == [NoLast EXCEPT !.cmd = "list", !.cwd = cwd, !.flags = args]
    IN  /\ last' = IF cfg.error
                   THEN [rec EXCEPT !.exit = 1, !.out = {"Error: Config file not found"}]
                   ELSE IF getRepoRoot(cwd) = Outside
                   THEN [rec EXCEPT !.exit = 1, !.base = cfg.base,
                                    !.dirname = cfg.localDirname,
                                    !.out = {"Error: Not in a git repository"}]
                   ELSE [rec EXCEPT !.base = cfg.base,
                                    !.dirname = cfg.localDirname]
        /\ UNCHANGED <<gitVars, fsVars, cfgVars>>

----------------------------------------------------------------------------
(* cool-branch add <branch> [-f] [--setup <path>] [--no-setup]              *)

\* the options addCommand hands to the path functions: index.ts passes the
\* config's dirname (localDirname) to addCommand, which hands it on as
\* removeCommand and renameCommand do
addConfigOpts(localDirname) == localDirname

\* add.ts addCommand, the setup step: the script to run (NoValue: none)
\* and what is printed before it runs
addSetupScript(setup, noSetup) ==
    IF noSetup THEN [script |-> NoValue, out |-> {}]
    ELSE LET scriptPath == IF setup # NoValue THEN setup
                           ELSE findSetupScript(coolBranchDir, rootDir)
         IN  IF scriptPath = NoValue THEN [script |-> NoValue, out |-> {}]
             ELSE IF setup # NoValue /\ ~SetupFileExists(setup, rootDir)
             THEN [script |-> NoValue,
                   out |-> {"Warning: Setup script not found"}]
             ELSE [script |-> scriptPath, out |-> {"Running setup script..."}]

\* a test that creates a branch whenever none exists locally
needsNewBranch_ignoresRemote(localExists, remoteExists) == ~localExists
\* add.ts addCommand, lines 93-117: git worktree add -b only when the
\* branch exists neither locally nor on the remote
needsNewBranch(localExists, remoteExists) == ~localExists /\ ~remoteExists

\* git.ts remoteBranchExists: refs/remotes/origin/<branch> after the fetch
remoteBranchExists(branchName) ==
    origin # NoValue /\ branchName \in RemoteBranches

\* the settings directory the copy step reads: <repoRoot>/.cool-branch of
\* the checkout the command runs in
SourceEntries(root) ==
    IF root.at = "main" THEN Range(coolBranchDir)
    ELSE IF root.path \in DOMAIN settings THEN settings[root.path].entries
    ELSE {}
\* the files the copy step reads config.json and config.local.json from
SourceSettings(root) ==
    SettingsDir(TRUE, SourceEntries(root), ConfigJsonAt(root),
                ConfigLocalJsonAt(root))

\* what an uncaught exception of the path functions prints (index.ts
\* main().catch, exit 1)
ParseError == "Error: Failed to parse config file"

\* a runner that ignores the script's exit status
runSetupScript_ignoresStatus(scriptPath, worktreePath, exitsZero) == TRUE
\* add.ts runSetupScript: "<scriptPath>" "<worktreePath>" run with the
\* worktree as working directory; TRUE iff the script exits zero
runSetupScript(scriptPath, worktreePath, exitsZero) == exitsZero

Add(cwd, branchName, force, setup, noSetup, scriptOk, copyConfig) ==
    LET cfg == main(NoFlags, cwd)
        opts == addConfigOpts(cfg.localDirname)
        wb == getWorktreeBasePath(mapping, baseDirs, cfg.base, cwd, opts)
        tp == getWorktreePath(wb.mapping, cfg.base, branchName, cwd, opts)
        targetPath == tp.path
        g1 == IF ~isNonEmptyDirectory(Git, targetPath) THEN Git
              ELSE IF removeWorktreeOk(Git, targetPath, TRUE)
                   THEN removeWorktree(Git, targetPath)
                   ELSE removeDirectoryRecursive(prune(Git), targetPath)
        g2 == prune(g1)
        localExists == branchExists(g2, branchName)
        remoteExists == remoteBranchExists(branchName)
        createBranch == needsNewBranch(localExists, remoteExists)
        s == addSetupScript(setup, noSetup)
        success == runSetupScript(s.script, targetPath, scriptOk)
        g3 == addWorktree(g2, targetPath, branchName)
        g4 == [g3 EXCEPT !.settings[targetPath] =
                  copyConfigFiles(copyMode(copyConfig),
                                  SourceSettings(getRepoRoot(cwd)), @)]
        rec == [NoLast EXCEPT !.cmd = "add", !.cwd = cwd, !.branch = branchName,
                              !.force = force, !.dirname = cfg.localDirname,
                              !.base = cfg.base]
    IN  IF getRepoRoot(cwd) = Outside
        THEN /\ last' = [rec EXCEPT !.exit = 1,
                                    !.out = {"Error: Not in a git repository"}]
             /\ UNCHANGED <<gitVars, fsVars, cfgVars>>
        ELSE IF getRepoFolderNameThrows(mapping, cfg.base, opts)
        THEN /\ last' = [rec EXCEPT !.exit = 1, !.out = {ParseError}]
             /\ UNCHANGED <<gitVars, fsVars, cfgVars>>
        ELSE IF isNonEmptyDirectory(Git, targetPath) /\ ~force
        THEN /\ last' = [rec EXCEPT !.exit = 1, !.path = targetPath,
                            !.out = {"Error: Directory already exists and is non-empty"}]
             /\ Leave(Git, tp.mapping, wb.baseDirs)
             /\ UNCHANGED cfgVars
        ELSE IF ~addWorktreeOk(g2, targetPath, branchName, createBranch)
        THEN /\ last' = [rec EXCEPT !.exit = 1, !.path = targetPath,
                            !.out = {"Error: Failed to create worktree"}]
             /\ Leave(g2, tp.mapping, wb.baseDirs)
             /\ UNCHANGED cfgVars
        ELSE /\ Cardinality(DOMAIN g2.wt) < MaxWorktrees
             /\ last' = [rec EXCEPT
                   !.path = targetPath,
                   !.created = TRUE,
                   !.createBranch = createBranch,
                   !.setup = setup,
                   !.noSetup = noSetup,
                   !.copyConfig = copyConfig,
                   !.script = s.script,
                   !.scriptCwd = IF s.script # NoValue THEN targetPath ELSE NoPath,
                   !.scriptArg = IF s.script # NoValue THEN targetPath ELSE NoPath,
                   !.scriptOk = s.script = NoValue \/ scriptOk,
                   !.exit = IF s.script # NoValue /\ ~success THEN 1 ELSE 0,
                   !.out = {"Worktree created at"} \cup s.out \cup
                           (IF s.script = NoValue THEN {}
                            ELSE IF success THEN {"Setup complete."}
                            ELSE {"Error: Setup script failed."}),
                   !.roundTrip = [valid |-> TRUE, dirs |-> dirs,
                                  baseDirs |-> baseDirs]]
             /\ Leave(g4, tp.mapping, wb.baseDirs)
             /\ UNCHANGED cfgVars

----------------------------------------------------------------------------
(* cool-branch rm <branch> [-f]                                             *)

\* git.ts deleteBranch: git branch -D refuses a branch that does not exist
\* or is checked out in some worktree
deleteBranchOk(g, b) == b \in g.branches /\ b \notin CheckedOut(g)
deleteBranch(g, b) == [g EXCEPT !.branches = g.branches \ {b}]

\* a report that turns the failed deletion into an error
deleteFailureOutput_asError(deleted) ==
    IF deleted THEN {} ELSE {"Error: Could not delete branch"}
\* remove.ts removeCommand, lines 67-75: a failed deletion is caught and
\* reported by console.warn
deleteFailureOutput(deleted) ==
    IF deleted THEN {} ELSE {"Warning: Could not delete branch"}

\* a sequence that deletes the branch before it looks at the worktree
removeSteps_deletesFirst(g, worktreePath, branchName, force, deleteOk) ==
    LET g0 == IF deleteOk /\ deleteBranchOk(g, branchName)
              THEN deleteBranch(g, branchName) ELSE g
    IN  IF \/ worktreePath \notin DOMAIN g0.dirs
           \/ ~removeWorktreeOk(g0, worktreePath, force)
        THEN g0
        ELSE removeWorktree(g0, worktreePath)
\* remove.ts removeCommand, lines 44-75: what the command's git calls leave
\* behind.  A missing worktree and a failed removal end the process before
\* deleteBranch is called
removeSteps(g, worktreePath, branchName, force, deleteOk) ==
    IF \/ worktreePath \notin DOMAIN g.dirs
       \/ ~removeWorktreeOk(g, worktreePath, force)
    THEN g
    ELSE LET g1 == removeWorktree(g, worktreePath)
         IN  IF deleteOk /\ deleteBranchOk(g1, branchName)
             THEN deleteBranch(g1, branchName)
             ELSE g1

\* remove.ts removeCommand.  deleteOk: whether git can delete the branch
\* when nothing in the modelled state prevents it
Remove(cwd, branchName, force, deleteOk) ==
    LET cfg == main(NoFlags, cwd)
        tp == getWorktreePath(mapping, cfg.base, branchName, cwd, cfg.localDirname)
        worktreePath == tp.path
        g1 == removeWorktree(Git, worktreePath)
        deleted == deleteOk /\ deleteBranchOk(g1, branchName)
        after == removeSteps(Git, worktreePath, branchName, force, deleteOk)
        rec == [NoLast EXCEPT !.cmd = "rm", !.cwd = cwd, !.branch = branchName,
                              !.force = force, !.dirname = cfg.localDirname,
                              !.base = cfg.base]
    IN  IF getRepoRoot(cwd) = Outside
        THEN /\ last' = [rec EXCEPT !.exit = 1,
                                    !.out = {"Error: Not in a git repository"}]
             /\ UNCHANGED <<gitVars, fsVars, cfgVars>>
        ELSE IF getRepoFolderNameThrows(mapping, cfg.base, cfg.localDirname)
        THEN /\ last' = [rec EXCEPT !.exit = 1, !.out = {ParseError}]
             /\ UNCHANGED <<gitVars, fsVars, cfgVars>>
        ELSE IF worktreePath \notin DOMAIN dirs
        THEN /\ last' = [rec EXCEPT !.exit = 1, !.path = worktreePath,
                            !.out = {"Error: Worktree does not exist"}]
             /\ Leave(after, tp.mapping, baseDirs)
             /\ UNCHANGED cfgVars
        ELSE IF ~removeWorktreeOk(Git, worktreePath, force)
        THEN /\ last' = [rec EXCEPT !.exit = 1, !.path = worktreePath,
                            !.out = IF /\ ~force
                                       /\ removeWorktreeOk(Git, worktreePath, TRUE)
                                    THEN {"Error: Worktree has uncommitted changes."}
                                    ELSE {"Error: Failed to remove worktree"}]
             /\ Leave(after, tp.mapping, baseDirs)
             /\ UNCHANGED cfgVars
        ELSE /\ last' = [rec EXCEPT !.exit = 0, !.path = worktreePath,
                            !.removed = TRUE, !.deleted = deleted,
                            !.out = {"Worktree and branch removed"} \cup
                                    deleteFailureOutput(deleted),
                            !.roundTrip =
                                IF /\ last.cmd = "add"
                                   /\ last.branch = branchName
                                THEN last.roundTrip ELSE NoSnapshot]
             /\ Leave(after, tp.mapping, baseDirs)
             /\ UNCHANGED cfgVars

----------------------------------------------------------------------------
(* cool-branch rename [<branch>] [<new-name>]                               *)

\* a numbering that takes the next number without looking at the branches
generateIncrementedName_noLoop(baseName, existingBranches) ==
    Name(baseName.stem, IF baseName.num # NoNum THEN baseName.num + 1 ELSE 1)
\* git.ts generateIncrementedName: <stem>-<n> for the least n from the
\* current suffix plus one (from 1 when there is none) that names no
\* existing branch
generateIncrementedName(baseName, existingBranches) ==
    LET startNum == IF baseName.num # NoNum THEN baseName.num + 1 ELSE 1
        free == {n \in startNum..(MaxNum + 1) :
                    n = MaxNum + 1 \/ Name(baseName.stem, n) \notin existingBranches}
    IN  Name(baseName.stem, CHOOSE n \in free : \A m \in free : n <= m)

\* git.ts renameBranch: git branch -m <old> <new>; git refuses an old name
\* that is no branch and a new name that is one
renameBranchOk(g, oldName, newName) ==
    oldName \in g.branches /\ newName \notin g.branches
\* worktrees that have the branch checked out follow it
renameBranch(g, oldName, newName) ==
    [g EXCEPT !.branches = (g.branches \ {oldName}) \cup {newName},
              !.wt = [p \in DOMAIN g.wt |->
                         IF g.wt[p] = oldName THEN newName ELSE g.wt[p]]]

\* the directory path.dirname(p) exists: it is <base>/<folder> itself, or
\* a directory that leads to some directory under <base>/<folder>
ParentExists(g, p) ==
    \/ StemDir(p.leaf.stem) = ""
    \/ \E q \in DOMAIN g.dirs :
           /\ q.base = p.base
           /\ q.folder = p.folder
           /\ \/ StemDir(q.leaf.stem) = StemDir(p.leaf.stem)
              \/ StemDir(q.leaf.stem) = StemDir(p.leaf.stem) \o "feat/"

\* git.ts moveWorktree: git worktree move <old> <new>; git renames the
\* directory and creates no missing parent directory
moveWorktreeOk(g, oldPath, newPath) ==
    /\ oldPath \in DOMAIN g.wt
    /\ IsWorktreeDir(g, oldPath)
    /\ newPath \notin DOMAIN g.dirs
    /\ newPath \notin DOMAIN g.wt
    /\ ParentExists(g, newPath)
moveWorktree(g, oldPath, newPath) ==
    [g EXCEPT !.wt = (newPath :> g.wt[oldPath]) @@
                         Restrict(g.wt, DOMAIN g.wt \ {oldPath}),
              !.dirs = (newPath :> g.dirs[oldPath]) @@
                         Restrict(g.dirs, DOMAIN g.dirs \ {oldPath}),
              !.settings = (newPath :> g.settings[oldPath]) @@
                         Restrict(g.settings, DOMAIN g.settings \ {oldPath})]

\* the pairs <<s, t>> of modelled folder names with s a proper prefix of t
ProperPrefixes == {<<MainRootBasename, SiblingDirname>>}

\* oldPath.startsWith(worktreeBase) on the path strings <base>/<folder>/
\* <leaf> and <base>/<folder>: the bases are equal and the base directory's
\* folder name is a prefix of the path's
startsWith(p, worktreeBase) ==
    /\ p.base = worktreeBase.base
    /\ \/ p.folder = worktreeBase.folder
       \/ <<worktreeBase.folder, p.folder>> \in ProperPrefixes

\* git.ts listWorktrees: the main checkout, marked isMain, and the linked
\* worktrees registered with git
listWorktrees(g) ==
    {[path |-> RepoRootPath, branch |-> MainBranch, isMain |-> TRUE]} \cup
    {[path |-> p, branch |-> g.wt[p], isMain |-> FALSE] : p \in DOMAIN g.wt}

\* a test that takes no worktree for the main checkout
isMainWorktree_never(w) == FALSE
\* rename.ts renameCommand, lines 70-73: targetWorktree.isMain
isMainWorktree(w) == w.isMain

\* a test that takes every name for free
branchNameTaken_never(existingBranches, name) == FALSE
\* rename.ts renameCommand, lines 105-110: existingBranches.includes(name)
branchNameTaken(existingBranches, name) == name \in existingBranches

\* process.cwd(): a directory below a worktree's root is the path of no
\* worktree
CwdPath(cwd) ==
    IF cwd.at = "main" THEN RepoRootPath
    ELSE IF cwd.at = "subdir"
    THEN [cwd.path EXCEPT !.leaf = Name(NameString(@) \o "/src", NoNum)]
    ELSE cwd.path

\* rename.ts renameCommand, lines 42-90: the branch and the worktree the
\* invocation is about, or the error it stops with
renameTarget(cwd, arg1, arg2) ==
    LET worktrees == listWorktrees(Git)
        cwdPath == CwdPath(cwd)
        current == {w \in worktrees : w.path = cwdPath}
        isInMain == current = {} \/ \E w \in current : w.isMain
        found == {w \in worktrees : w.branch = arg1}
        targetWorktree == CHOOSE w \in found : TRUE
        none == [error |-> NoValue, branch |-> MainBranch, path |-> NoPath,
                 newName |-> NoName]
    IN  IF isInMain
        THEN IF arg1 = NoName
             THEN [none EXCEPT !.error = "Error: Branch name is required"]
             ELSE IF found = {}
             THEN [none EXCEPT !.error = "Error: Branch does not exist or has no worktree"]
             ELSE IF isMainWorktree(targetWorktree)
             THEN [none EXCEPT !.error = "Error: Cannot rename the main repository worktree"]
             ELSE [none EXCEPT !.branch = arg1, !.newName = arg2,
                               !.path = targetWorktree.path]
        ELSE [none EXCEPT !.branch = wt[cwd.path], !.newName = arg1,
                          !.path = cwd.path]

\* a rollback that leaves the branch under its new name
revertBranchRename_skipped(g, newName, oldName, revertOk) == g
\* rename.ts renameCommand, lines 149-158: the compensating rename after a
\* failed move; its failure is caught
revertBranchRename(g, newName, oldName, revertOk) ==
    IF revertOk THEN renameBranch(g, newName, oldName) ELSE g

\* a report of the failed move that never mentions the rollback's failure
moveFailureOutput_quiet(revertOk) ==
    {"Error: Failed to move worktree", "Branch rename has been reverted."}
\* rename.ts renameCommand, lines 147-160: what a failed move prints
moveFailureOutput(revertOk) ==
    {"Error: Failed to move worktree"} \cup
    (IF revertOk
     THEN {"Branch rename has been reverted."}
     ELSE {"Warning: Could not revert branch rename. Branch state may be inconsistent."})

\* a new path that is the new branch's path under the base directory
renamedPath_underBase(oldPath, newName) == [oldPath EXCEPT !.leaf = newName]
\* rename.ts renameCommand, line 133:
\* path.join(path.dirname(oldPath), finalNewBranchName)
renamedPath(oldPath, newName) ==
    IF StemDir(oldPath.leaf.stem) = ""
    THEN [oldPath EXCEPT !.leaf = newName]
    ELSE [oldPath EXCEPT !.leaf = Name(StemDir(@.stem) \o newName.stem,
                                       newName.num)]

\* rename.ts renameCommand.  renameOk, moveOk, revertOk: whether git
\* carries out the branch rename, the worktree move and the rename back
\* when nothing in the modelled state prevents it
Rename(cwd, arg1, arg2, renameOk, moveOk, revertOk) ==
    LET cfg == main(NoFlags, cwd)
        t == renameTarget(cwd, arg1, arg2)
        targetBranchName == t.branch
        oldPath == t.path
        finalNewBranchName ==
            IF t.newName # NoName THEN t.newName
            ELSE generateIncrementedName(targetBranchName, branches)
        wb == getWorktreeBasePath(mapping, baseDirs, cfg.base, InMain,
                                  cfg.localDirname)
        newPath == renamedPath(oldPath, finalNewBranchName)
        renamed == renameOk /\ renameBranchOk(Git, targetBranchName,
                                              finalNewBranchName)
        g1 == renameBranch(Git, targetBranchName, finalNewBranchName)
        moved == moveOk /\ moveWorktreeOk(g1, oldPath, newPath)
        g2 == moveWorktree(g1, oldPath, newPath)
        rec == [NoLast EXCEPT !.cmd = "rename", !.cwd = cwd, !.arg1 = arg1,
                              !.dirname = cfg.localDirname, !.base = cfg.base]
        rec2 == [rec EXCEPT !.branch = targetBranchName, !.path = oldPath,
                            !.newBranch = finalNewBranchName,
                            !.explicit = t.newName # NoName,
                            !.managedBase = wb.path]
    IN  IF getRepoRoot(cwd) = Outside
        THEN /\ last' = [rec EXCEPT !.exit = 1,
                                    !.out = {"Error: Not in a git repository"}]
             /\ UNCHANGED <<gitVars, fsVars, cfgVars>>
        ELSE IF t.error # NoValue
        THEN /\ last' = [rec EXCEPT !.exit = 1, !.out = {t.error}]
             /\ UNCHANGED <<gitVars, fsVars, cfgVars>>
        ELSE /\ finalNewBranchName.num <= MaxNum
             /\ IF branchNameTaken(branches, finalNewBranchName)
                THEN /\ last' = [rec2 EXCEPT !.exit = 1,
                                    !.out = {"Error: Branch already exists"}]
                     /\ UNCHANGED <<gitVars, fsVars, cfgVars>>
                ELSE IF getRepoFolderNameThrows(mapping, cfg.base,
                                                cfg.localDirname)
                THEN /\ last' = [rec2 EXCEPT !.exit = 1, !.out = {ParseError}]
                     /\ UNCHANGED <<gitVars, fsVars, cfgVars>>
                ELSE IF ~startsWith(oldPath, wb.path)
                THEN /\ last' = [rec2 EXCEPT !.exit = 1,
                            !.out = {"Error: Worktree is not in the managed worktree directory"}]
                     /\ Leave(Git, wb.mapping, wb.baseDirs)
                     /\ UNCHANGED cfgVars
                ELSE IF ~renamed
                THEN /\ last' = [rec2 EXCEPT !.exit = 1, !.renameOk = FALSE,
                                    !.newPath = newPath,
                                    !.out = {"Error: Failed to rename branch"}]
                     /\ Leave(Git, wb.mapping, wb.baseDirs)
                     /\ UNCHANGED cfgVars
                ELSE IF ~moved
                THEN /\ last' = [rec2 EXCEPT !.exit = 1, !.moveOk = FALSE,
                            !.revertOk = revertOk, !.newPath = newPath,
                            !.out = moveFailureOutput(revertOk)]
                     /\ Leave(revertBranchRename(g1, finalNewBranchName,
                                                 targetBranchName, revertOk),
                              wb.mapping, wb.baseDirs)
                     /\ UNCHANGED cfgVars
                ELSE /\ last' = [rec2 EXCEPT !.exit = 0, !.newPath = newPath,
                                    !.out = {"Renamed", "Worktree moved to"}]
                     /\ Leave(g2, wb.mapping, wb.baseDirs)
                     /\ UNCHANGED cfgVars

----------------------------------------------------------------------------
(* cool-branch config dirname <value> | cool-branch config --unset dirname *)

\* config.ts configCommand on the key dirname of .cool-branch/config.json:
\* readConfigFile takes a missing or unparsable file for the empty object;
\* writeConfigFile creates the file (the place of a new entry in the
\* listing has no bearing on which setup script is found)
Config(cwd, value, unset) ==
    LET config == IF trackedCfg.kind = "json" THEN trackedCfg
                  ELSE CfgFile("json", NoValue, NoValue)
        written == IF unset THEN [config EXCEPT !.dirname = NoValue]
                   ELSE [config EXCEPT !.dirname = value]
        writes == ~unset \/ config.dirname # NoValue
        rec == [NoLast EXCEPT !.cmd = "config", !.cwd = cwd]
    IN  IF getRepoRoot(cwd) = Outside
        THEN /\ last' = [rec EXCEPT !.exit = 1,
                                    !.out = {"Error: Not in a git repository"}]
             /\ UNCHANGED <<gitVars, fsVars, cfgVars>>
        ELSE /\ last' = [rec EXCEPT !.out =
                            IF ~unset THEN {"Set"}
                            ELSE IF writes THEN {"Removed"} ELSE {"not found"}]
             /\ trackedCfg' = IF writes THEN written ELSE trackedCfg
             /\ coolBranchDir' =
                    IF writes /\ "config.json" \notin Range(coolBranchDir)
                    THEN Append(coolBranchDir, "config.json")
                    ELSE coolBranchDir
             /\ UNCHANGED <<gitVars, fsVars, origin, localCfg, customCfg,
                            rootDir, committed, committedCfg>>

----------------------------------------------------------------------------
(* What the user does between invocations                                   *)

ForeignDirs == {p \in DOMAIN dirs : Tree \notin dirs[p]}

\* mkdir -p <path> (and, with files, a file written into it)
UserMkdir(p, files) ==
    /\ p \notin DOMAIN dirs
    /\ Cardinality(ForeignDirs) < MaxForeign
    /\ dirs' = (p :> files) @@ dirs
    /\ baseDirs' = baseDirs \cup {[base |-> p.base, folder |-> p.folder]}
    /\ last' = NoLast
    /\ UNCHANGED <<gitVars, settings, mapping, cfgVars>>

\* a file written into a worktree and not committed
UserEdit(p) ==
    /\ p \in DOMAIN dirs
    /\ Tree \in dirs[p]
    /\ Untracked \notin dirs[p]
    /\ dirs' = [dirs EXCEPT ![p] = @ \cup {Untracked}]
    /\ last' = NoLast
    /\ UNCHANGED <<gitVars, settings, baseDirs, mapping, cfgVars>>

\* rm -rf <path>: git keeps the registration of a worktree deleted so
UserRmdir(p) ==
    /\ p \in DOMAIN dirs
    /\ dirs' = Restrict(dirs, DOMAIN dirs \ {p})
    /\ settings' = Restrict(settings, DOMAIN settings \ {p})
    /\ last' = NoLast
    /\ UNCHANGED <<gitVars, baseDirs, mapping, cfgVars>>

----------------------------------------------------------------------------
(* The specification of the worktree lifecycle                             *)

AddBranches == {MainBranch} \cup {Name("feature", n) : n \in {NoNum, 1}}
NewNames == {NoName, Name("feature", 1), Name("feature", 2)}
\* the places a user makes a directory by hand: where add puts the
\* worktree of a branch that is checked out already, and of one that is not
UserPaths == [base : {DEFAULT_BASE}, folder : {MainRootBasename, CfgDirname},
              leaf : {MainBranch, Name("feature", NoNum)}]

\* --setup <path> / --no-setup and the exit status of the script that runs
SetupRuns ==
    { [setup |-> NoValue, noSetup |-> FALSE, scriptOk |-> TRUE],
      [setup |-> NoValue, noSetup |-> FALSE, scriptOk |-> FALSE],
      [setup |-> NoValue, noSetup |-> TRUE, scriptOk |-> TRUE],
      [setup |-> "custom-setup.sh", noSetup |-> FALSE, scriptOk |-> FALSE],
      [setup |-> "nonexistent.sh", noSetup |-> FALSE, scriptOk |-> TRUE] }

\* what git does on a rename: all steps succeed, the branch rename fails,
\* the move fails and the rename back succeeds, the move and the rename
\* back both fail
GitFaults ==
    { [renameOk |-> TRUE, moveOk |-> TRUE, revertOk |-> TRUE],
      [renameOk |-> FALSE, moveOk |-> TRUE, revertOk |-> TRUE],
      [renameOk |-> TRUE, moveOk |-> FALSE, revertOk |-> TRUE],
      [renameOk |-> TRUE, moveOk |-> FALSE, revertOk |-> FALSE] }

\* the listing of <repo>/.cool-branch: a setup script, and config.json
\* when the repository has one
CoolBranchListing(tracked) ==
    IF tracked.kind = "none" THEN <<"setup.sh">> ELSE <<"config.json", "setup.sh">>

Init ==
    /\ branches = {MainBranch}
    /\ wt = EmptyFn
    /\ dirs = EmptyFn
    /\ baseDirs = {}
    /\ mapping = [b \in Bases |-> NoMappingFile]
    /\ origin = NoValue
    /\ trackedCfg \in {NoFile, CfgFile("json", NoValue, CfgDirname)}
    /\ localCfg = NoFile
    /\ customCfg = NoFile
    /\ coolBranchDir = CoolBranchListing(trackedCfg)
    /\ rootDir = <<"README.md", "custom-setup.sh">>
    /\ committed = Range(coolBranchDir)
    /\ committedCfg = trackedCfg
    /\ settings = EmptyFn
    /\ race = NoRace
    /\ last = NoLast
    /\ invocations = 0

\* a session is at most MaxInvocations steps long
Tick ==
    /\ invocations < MaxInvocations
    /\ invocations' = invocations + 1
    /\ UNCHANGED race

ListStep == Tick /\ List(NoFlags, InMain)

\* the setup flags that bear on an add of branch b: git never creates a
\* second checkout of the main checkout's branch, so no setup step is
\* reached for it
SetupRunsFor(b) ==
    IF b = MainBranch
    THEN {[setup |-> NoValue, noSetup |-> FALSE, scriptOk |-> TRUE]}
    ELSE SetupRuns

AddStep ==
    \E b \in AddBranches, force \in BOOLEAN :
        \E run \in SetupRunsFor(b) :
            Tick /\ Add(InMain, b, force, run.setup, run.noSetup, run.scriptOk,
                        NoValue)

AddOutsideStep ==
    Tick /\ Add(Outside, MainBranch, FALSE, NoValue, FALSE, TRUE, NoValue)

RemoveStep ==
    \E b \in AddBranches, force \in BOOLEAN, deleteOk \in BOOLEAN :
        Tick /\ Remove(InMain, b, force, deleteOk)

\* what git does on a rename that gets as far as git: a rename that stops
\* at its mode detection asks git for no change
GitFaultsFor(cwd, arg1, arg2) ==
    IF renameTarget(cwd, arg1, arg2).error # NoValue
    THEN {[renameOk |-> TRUE, moveOk |-> TRUE, revertOk |-> TRUE]}
    ELSE GitFaults

RenameStep ==
    \E arg1 \in AddBranches, arg2 \in NewNames :
        \E git \in GitFaultsFor(InMain, arg1, arg2) :
            Tick /\ Rename(InMain, arg1, arg2,
                           git.renameOk, git.moveOk, git.revertOk)

RenameInWorktreeStep ==
    \E p \in DOMAIN wt, arg1 \in NewNames, git \in GitFaults :
        Tick /\ Rename(InWorktree(p), arg1, NoName,
                       git.renameOk, git.moveOk, git.revertOk)

UserMkdirStep ==
    \E p \in UserPaths, files \in {{}, {Foreign}} : Tick /\ UserMkdir(p, files)

UserEditStep == \E p \in DOMAIN dirs : Tick /\ UserEdit(p)

UserRmdirStep == \E p \in DOMAIN dirs : Tick /\ UserRmdir(p)

Next ==
    \/ ListStep
    \/ AddStep
    \/ AddOutsideStep
    \/ RemoveStep
    \/ RenameStep
    \/ RenameInWorktreeStep
    \/ UserMkdirStep
    \/ UserEditStep
    \/ UserRmdirStep

Spec == Init /\ [][Next]_vars

----------------------------------------------------------------------------
(* The specification of add's copy step and setup script: the settings     *)
(* directory of the repository holds any of the bounded listings, in any   *)
(* order a directory read can give, and add runs with any copy mode        *)

\* most entries in the repository's settings directory
MaxEntries == 2
\* a session is at most MaxSetupInvocations steps long
MaxSetupInvocations == 2

ListedNames == {"setup", "setup.local", "setup.local.sh", "config.local.json",
                "notes.txt"}
Listings ==
    {s \in UNION {[1..n -> ListedNames] : n \in 0..MaxEntries} :
        \A i, j \in DOMAIN s : i # j => s[i] # s[j]}

InitSetup ==
    /\ branches = {MainBranch}
    /\ wt = EmptyFn
    /\ dirs = EmptyFn
    /\ baseDirs = {}
    /\ mapping = [b \in Bases |-> NoMappingFile]
    /\ origin = NoValue
    /\ trackedCfg = NoFile
    /\ coolBranchDir \in Listings
    /\ localCfg = IF "config.local.json" \in Range(coolBranchDir)
                  THEN CfgFile("json", NoValue, NoValue) ELSE NoFile
    /\ customCfg = NoFile
    /\ rootDir \in {<<"README.md">>, <<"README.md", "cool-branch.sh">>}
    /\ committed \in {{}, {e \in Range(coolBranchDir) : ~IsLocalEntry(e)}}
    /\ committedCfg = NoFile
    /\ settings = EmptyFn
    /\ race = NoRace
    /\ last = NoLast
    /\ invocations = 0

TickSetup ==
    /\ invocations < MaxSetupInvocations
    /\ invocations' = invocations + 1
    /\ UNCHANGED race

\* the setup flags and the script's exit status
CopyRuns ==
    { [noSetup |-> FALSE, scriptOk |-> TRUE],
      [noSetup |-> FALSE, scriptOk |-> FALSE],
      [noSetup |-> TRUE, scriptOk |-> TRUE] }

AddWithCopyStep ==
    \E copyConfig \in CopyModes \cup {NoValue}, run \in CopyRuns :
        TickSetup /\ Add(InMain, Name("feature", NoNum), FALSE, NoValue,
                         run.noSetup, run.scriptOk, copyConfig)

RemoveFeatureStep ==
    \E force \in BOOLEAN :
        TickSetup /\ Remove(InMain, Name("feature", NoNum), force, TRUE)

NextSetup ==
    \/ AddWithCopyStep
    \/ RemoveFeatureStep

SpecSetup == InitSetup /\ [][NextSetup]_vars

----------------------------------------------------------------------------
(* The specification of rename under a changing dirname: the repository's  *)
(* config.json names a folder or none, and config changes it between the   *)
(* invocations                                                             *)

InitManaged ==
    /\ branches = {MainBranch}
    /\ wt = EmptyFn
    /\ dirs = EmptyFn
    /\ baseDirs = {}
    /\ mapping = [b \in Bases |-> NoMappingFile]
    /\ origin = NoValue
    /\ trackedCfg \in {NoFile, CfgFile("json", NoValue, CfgDirname),
                        CfgFile("json", NoValue, SiblingDirname)}
    /\ localCfg = NoFile
    /\ customCfg = NoFile
    /\ coolBranchDir = CoolBranchListing(trackedCfg)
    /\ rootDir = <<"README.md">>
    /\ committed = Range(coolBranchDir)
    /\ committedCfg = trackedCfg
    /\ settings = EmptyFn
    /\ race = NoRace
    /\ last = NoLast
    /\ invocations = 0

AddPlainStep ==
    \E b \in AddBranches :
        Tick /\ Add(InMain, b, FALSE, NoValue, TRUE, TRUE, NoValue)

ConfigDirnameStep ==
    \E value \in {CfgDirname, SiblingDirname}, unset \in BOOLEAN :
        Tick /\ Config(InMain, value, unset)

NextManaged ==
    \/ AddPlainStep
    \/ ConfigDirnameStep
    \/ RenameStep
    \/ RenameInWorktreeStep

SpecManaged == InitManaged /\ [][NextManaged]_vars

----------------------------------------------------------------------------
(* The specification of the configuration resolution: the three config     *)
(* files hold any of the bounded contents, and list runs with any flags    *)

\* contents of a config file: absent, unparsable, or a JSON object whose
\* base and dirname are absent, a non-string, or a string
ConfigFiles(b, d) ==
    {NoFile, Malformed} \cup
    {CfgFile("json", base, dirname) : base \in {NoValue, NonString, b},
                                     dirname \in {NoValue, d}}

InitConfig ==
    /\ branches = {MainBranch}
    /\ wt = EmptyFn
    /\ dirs = EmptyFn
    /\ baseDirs = {}
    /\ mapping = [b \in Bases |-> NoMappingFile]
    /\ origin = NoValue
    /\ trackedCfg \in ConfigFiles(CfgBase, CfgDirname)
    /\ localCfg \in ConfigFiles(LocalBase, LocalDirname)
    /\ customCfg \in ConfigFiles(CustomBase, CustomDirname) \cup {NoConfigJson}
    /\ coolBranchDir = CoolBranchListing(trackedCfg)
    /\ rootDir = <<"README.md">>
    /\ committed = Range(coolBranchDir)
    /\ committedCfg = trackedCfg
    /\ settings = EmptyFn
    /\ race = NoRace
    /\ last = NoLast
    /\ invocations = 0

ListWithFlagsStep == \E args \in CliArgs : Tick /\ List(args, InMain)

NextConfig == ListWithFlagsStep

SpecConfig == InitConfig /\ [][NextConfig]_vars

----------------------------------------------------------------------------
(* The specification of the commands run from any checkout: the repository *)
(* has a remote or none, the mapping file of the default base holds any of *)
(* the bounded contents, and add, rm and rename run from the main checkout,*)
(* from the root of a linked worktree or from a directory below it         *)

\* another repository that keeps its worktrees under the same base
OtherRepoId == IdOfUrl("git@host:other.git")
OtherFolder == "other"
\* a folder name that an earlier cool-branch dirname <name> stored
StoredFolder == "stored"

\* contents of ~/.worktrees/cool-branch.json before the session
RepoMappingFiles(o) ==
    {NoMappingFile, MalformedMappingFile,
     MappingFile(OtherRepoId :> OtherFolder),
     MappingFile((IF o # NoValue THEN IdOfUrl(o) ELSE IdOfRoot(InMain))
                     :> StoredFolder)}

InitRepo ==
    /\ branches = {MainBranch}
    /\ wt = EmptyFn
    /\ dirs = EmptyFn
    /\ baseDirs = {}
    /\ origin \in {NoValue, OriginUrl}
    /\ \E m \in RepoMappingFiles(origin) :
           mapping = [b \in Bases |-> IF b = DEFAULT_BASE THEN m
                                      ELSE NoMappingFile]
    /\ trackedCfg = NoFile
    /\ localCfg = NoFile
    /\ customCfg = NoFile
    /\ coolBranchDir = CoolBranchListing(trackedCfg)
    /\ rootDir = <<"README.md">>
    /\ committed = Range(coolBranchDir)
    /\ committedCfg = trackedCfg
    /\ settings = EmptyFn
    /\ race = NoRace
    /\ last = NoLast
    /\ invocations = 0

\* the checkouts a command can run in, and the directories below them
WorktreeDirs == {p \in DOMAIN wt : IsWorktreeDir(Git, p)}
RepoCwds ==
    {InMain} \cup {InWorktree(p) : p \in WorktreeDirs}
             \cup {InSubdir(p) : p \in WorktreeDirs}

RepoBranches ==
    {Name("feature", NoNum), Name("feature", 2), Name("feat/feature", NoNum)}

AddFromStep ==
    \E cwd \in RepoCwds, b \in RepoBranches :
        Tick /\ Add(cwd, b, FALSE, NoValue, TRUE, TRUE, "none")

RemoveFromStep ==
    \E cwd \in RepoCwds, b \in RepoBranches \cup {Name("feature", 1)} :
        Tick /\ Remove(cwd, b, FALSE, TRUE)

RenameFromStep ==
    \E cwd \in RepoCwds,
       arg1 \in RepoBranches \cup {NoName, Name("feature", 1)},
       arg2 \in {NoName, Name("feature", 1)} :
        Tick /\ Rename(cwd, arg1, arg2, TRUE, TRUE, TRUE)

NextRepo ==
    \/ AddFromStep
    \/ RemoveFromStep
    \/ RenameFromStep

SpecRepo == InitRepo /\ [][NextRepo]_vars

----------------------------------------------------------------------------
(* The specification of invocations that run at the same time: one process *)
(* in each of three repositories that share the default base resolves (or  *)
(* sets) its folder name; readConfig and writeConfig are separate file     *)
(* system calls, and nothing locks the file between them                   *)

ThirdRepoId == IdOfUrl("git@host:third.git")
ThirdFolder == "third"
RaceRepos == {IdOfUrl(OriginUrl), OtherRepoId, ThirdRepoId}

\* the name a process writes for its repository: the root's base name, or
\* the name given to cool-branch dirname <name>
RaceName(id, op) ==
    IF op = "set" THEN StoredFolder
    ELSE IF id = OtherRepoId THEN OtherFolder
    ELSE IF id = ThirdRepoId THEN ThirdFolder
    ELSE MainRootBasename

InitRace ==
    /\ branches = {MainBranch}
    /\ wt = EmptyFn
    /\ dirs = EmptyFn
    /\ baseDirs = {}
    /\ origin = OriginUrl
    /\ \E m \in {NoMappingFile, MappingFile(IdOfUrl(OriginUrl) :> StoredFolder)} :
           mapping = [b \in Bases |-> IF b = DEFAULT_BASE THEN m
                                      ELSE NoMappingFile]
    /\ trackedCfg = NoFile
    /\ localCfg = NoFile
    /\ customCfg = NoFile
    /\ coolBranchDir = CoolBranchListing(trackedCfg)
    /\ rootDir = <<"README.md">>
    /\ committed = Range(coolBranchDir)
    /\ committedCfg = trackedCfg
    /\ settings = EmptyFn
    /\ \E op \in {"resolve", "set"} :
           race = [pc    |-> [id \in RaceRepos |-> "start"],
                   op    |-> [id \in RaceRepos |->
                                 IF id = IdOfUrl(OriginUrl) THEN op ELSE "resolve"],
                   snap  |-> [id \in RaceRepos |-> EmptyFn],
                   order |-> <<>>]
    /\ last = NoLast
    /\ invocations = 0

\* config.ts getRepoFolderName, lines 162-170, and setRepoFolderName, lines
\* 190-191: the process reads the file; a resolution that finds its entry
\* returns it and writes nothing
RaceRead(id) ==
    LET config == readConfig(mapping, DEFAULT_BASE)
        found == race.op[id] = "resolve" /\ Lookup(config, id) # NoValue
    IN  /\ race.pc[id] = "start"
        /\ race' = [race EXCEPT !.snap[id] = config,
                                !.pc[id] = IF found THEN "done" ELSE "read"]
        /\ UNCHANGED <<gitVars, fsVars, cfgVars, last, invocations>>

\* config.ts getRepoFolderName, lines 176-178, and setRepoFolderName, lines
\* 193-194: the process sets its entry on the object it read and writes
\* the object back
RaceWrite(id) ==
    /\ race.pc[id] = "read"
    /\ mapping' = writeConfig(mapping, DEFAULT_BASE,
                       (id :> RaceName(id, race.op[id])) @@ race.snap[id])
    /\ race' = [race EXCEPT !.pc[id] = "done", !.order = Append(@, id)]
    /\ UNCHANGED <<gitVars, dirs, settings, baseDirs, cfgVars, last,
                   invocations>>

RaceReadStep == \E id \in RaceRepos : RaceRead(id)
RaceWriteStep == \E id \in RaceRepos : RaceWrite(id)

NextRace ==
    \/ RaceReadStep
    \/ RaceWriteStep

SpecRace == InitRace /\ [][NextRace]_vars

----------------------------------------------------------------------------
(* Properties of rename's rollback                                          *)

MoveError == "Error: Failed to move worktree"
InconsistentWarning ==
    "Warning: Could not revert branch rename. Branch state may be inconsistent."

\* C1: when rename's move of the worktree fails after the branch was
\* renamed, and the rename back succeeds, the invocation exits nonzero, the
\* branch exists under its original name and not under the attempted new
\* name, and the worktree is still registered at its original path with
\* that branch.
C1_MoveFailureRestoresBranch ==
    (last.cmd = "rename" /\ ~last.moveOk /\ last.revertOk) =>
        /\ last.exit # 0
        /\ MoveError \in last.out
        /\ last.branch \in branches
        /\ last.newBranch \notin branches
        /\ last.path \in DOMAIN wt
        /\ wt[last.path] = last.branch

C1_Witness ==
    /\ last.cmd = "rename"
    /\ ~last.moveOk
    /\ last.revertOk
    /\ IsWorktreeDir(Git, last.path)
    /\ last.newBranch # last.branch

\* the worktree of rename's target is where it was and has the new branch
RenamedNotMoved ==
    /\ last.cmd = "rename"
    /\ last.newBranch \in branches
    /\ last.branch \notin branches
    /\ last.path \in DOMAIN wt
    /\ wt[last.path] = last.newBranch

\* C2: rename ends with the branch renamed and the worktree not moved only
\* when the move and the rename back both failed; it then prints the move
\* error and the inconsistent-state warning and exits nonzero.
C2_InconsistentOnlyAfterBothFail ==
    RenamedNotMoved =>
        /\ ~last.moveOk
        /\ ~last.revertOk
        /\ MoveError \in last.out
        /\ InconsistentWarning \in last.out
        /\ last.exit # 0

C2_Witness == RenamedNotMoved /\ ~last.revertOk

----------------------------------------------------------------------------
(* Properties of the folder-name resolution                                 *)

----------------------------------------------------------------------------
(* Properties of the configuration resolution                               *)

\* a file defines a key when it parses and holds a string for the key
Defines(file, key) == file.kind = "json" /\ IsString(file[key])

\* the per-repository value of a key: local file first, then tracked file
RepoValue(key, default) ==
    IF Defines(localCfg, key) THEN localCfg[key]
    ELSE IF Defines(trackedCfg, key) THEN trackedCfg[key]
    ELSE default

\* the value of a key with --config given: that file first, then the
\* repository's files
LayeredValue(key, default) ==
    IF Defines(customCfg, key) THEN customCfg[key] ELSE RepoValue(key, default)

\* C4: with --config given, every key is taken from the first layer that
\* defines it: the --config file, then config.local.json, then config.json,
\* then the default.
C4_KeyByKeyAcrossLayers ==
    (last.cmd = "list" /\ last.flags.config /\ last.exit = 0) =>
        /\ last.dirname = LayeredValue("dirname", NoValue)
        /\ last.flags.base = NoValue =>
              last.base = LayeredValue("base", DEFAULT_BASE)

\* C5: the effective base is the --base flag when given; otherwise the
\* base the configuration defines (the --config file when given, then
\* config.local.json, then config.json); otherwise ~/.worktrees.
C5_BasePrecedence ==
    (last.cmd = "list" /\ last.exit = 0) =>
        last.base = IF last.flags.base # NoValue THEN last.flags.base
                    ELSE IF last.flags.config
                    THEN LayeredValue("base", DEFAULT_BASE)
                    ELSE RepoValue("base", DEFAULT_BASE)

\* C6: without flags, each key of the per-repository config has the local
\* file's value when the local file defines it, else the tracked file's
\* value when the tracked file defines it, and only else the default.
C6_LocalWinsPerKey ==
    (last.cmd = "list" /\ last.flags = NoFlags) =>
        /\ last.dirname = RepoValue("dirname", NoValue)
        /\ last.base = RepoValue("base", DEFAULT_BASE)

C6_Witness ==
    /\ last.cmd = "list"
    /\ last.flags = NoFlags
    /\ Defines(localCfg, "dirname")
    /\ Defines(trackedCfg, "dirname")
    /\ ~Defines(localCfg, "base")
    /\ Defines(trackedCfg, "base")
    /\ last.dirname = LocalDirname
    /\ last.base = CfgBase

----------------------------------------------------------------------------
(* Properties of add and rm                                                 *)

TargetExists == "Error: Directory already exists and is non-empty"

\* C7: add without force whose target path is a non-empty directory exits
\* nonzero with TargetExists and changes no branch, no worktree
\* registration and no directory; so does a second add of a branch whose
\* worktree the first add created.
C7_TargetExistsWithoutForce ==
    [][(last'.cmd = "add" /\ ~last'.force /\ DirOf(Git, last'.path) # {}) =>
          /\ last'.exit # 0
          /\ last'.out = {TargetExists}
          /\ UNCHANGED <<branches, wt, dirs>>]_vars

C7_Witness ==
    /\ last.cmd = "add"
    /\ ~last.force
    /\ last.out = {TargetExists}
    /\ last.path \in DOMAIN wt
    /\ wt[last.path] = last.branch
    /\ IsWorktreeDir(Git, last.path)

\* C8: add with force whose target path is a non-empty directory that is
\* not a registered worktree leaves the path the worktree of the requested
\* branch, holding the checked-out tree and nothing of the prior contents.
C8_ForceAddSucceeds ==
    [][(/\ last'.cmd = "add"
        /\ last'.force
        /\ DirOf(Git, last'.path) # {}
        /\ last'.path \notin DOMAIN wt) =>
          /\ last'.path \in DOMAIN wt'
          /\ wt'[last'.path] = last'.branch
          /\ last'.path \in DOMAIN dirs'
          /\ dirs'[last'.path] = {Tree}]_vars

\* an rm that removed the worktree the preceding add of the same branch
\* created
RoundTrip == last.cmd = "rm" /\ last.roundTrip.valid

C10_SetupFailureKeepsWorktree ==
    (last.cmd = "add" /\ last.script # NoValue /\ ~last.scriptOk) =>
        /\ last.exit # 0
        /\ "Error: Setup script failed." \in last.out
        /\ last.path \in DOMAIN wt
        /\ wt[last.path] = last.branch
        /\ IsWorktreeDir(Git, last.path)
        /\ last.branch \in branches

C10_Witness ==
    /\ last.cmd = "add"
    /\ last.script = "setup.sh"
    /\ ~last.scriptOk
    /\ IsWorktreeDir(Git, last.path)

----------------------------------------------------------------------------
(* Properties of add's setup script and copy step                          *)

\* add ran far enough to look for a setup script by its name
LooksForScript ==
    last.cmd = "add" /\ last.created /\ last.setup = NoValue /\ ~last.noSetup

\* C11: the setup script add selects follows a strict priority: a
\* setup.local or setup.local.* entry of the settings directory when there
\* is one, else a setup or setup.* entry, else (the settings directory
\* yielding nothing) a cool-branch or cool-branch.* entry of the root, else
\* none; a local variant always shadows the non-local script.
C11_LocalScriptShadows ==
    LooksForScript =>
        LET locals == {e \in Range(coolBranchDir) : IsLocalSetupEntry(e)}
            regulars == {e \in Range(coolBranchDir) : IsRegularSetupEntry(e)}
        IN  /\ locals # {} => last.script \in locals
            /\ (locals = {} /\ regulars # {}) => last.script \in regulars
            /\ (locals = {} /\ regulars = {}) =>
                   last.script = findLegacySetupScript(rootDir)

\* C12: add looks for the setup script in the new worktree's settings
\* directory, after the copy step: when neither that directory nor the
\* root holds a script, none is run and add exits zero, whatever the
\* original checkout's settings directory holds.
C12_ScriptFromNewWorktree ==
    ( /\ LooksForScript
      /\ last.path \in DOMAIN settings
      /\ \A e \in settings[last.path].entries : ~IsSetupEntry(e)
      /\ findLegacySetupScript(rootDir) = NoValue ) =>
        /\ last.script = NoValue
        /\ last.exit = 0

\* C13: the setup script that add runs has the new worktree as its working
\* directory and the original repository's root as its one argument.
C13_ScriptGetsRepoRoot ==
    (last.cmd = "add" /\ last.script # NoValue) =>
        /\ last.scriptCwd = last.path
        /\ last.scriptArg = RepoRootPath

\* C14: after add's copy step the new worktree's settings directory holds
\* what the checkout put there and, with mode none, nothing more; with
\* mode all, every entry of the repository's settings directory; with mode
\* local (also the default), exactly the entries named X.local or
\* X.local.<ext>; and the directory exists whenever an entry was copied.
C14_CopyModeSelectsEntries ==
    (last.cmd = "add" /\ last.created /\ last.path \in DOMAIN settings) =>
        LET source == Range(coolBranchDir)
            got == settings[last.path]
            localNamed == source \cap {"setup.local", "setup.local.sh",
                                       "config.local.json"}
        IN  /\ last.copyConfig = "none" =>
                   got.exists = (committed # {}) /\ got.entries = committed
            /\ last.copyConfig = "all" => got.entries = committed \cup source
            /\ last.copyConfig \in {"local", NoValue} =>
                   got.entries = committed \cup localNamed
            /\ got.entries # committed => got.exists

C14_Witness ==
    /\ last.cmd = "add"
    /\ last.created
    /\ last.copyConfig = NoValue
    /\ committed = {}
    /\ "notes.txt" \in Range(coolBranchDir)
    /\ last.path \in DOMAIN settings
    /\ settings[last.path].exists
    /\ settings[last.path].entries = {"setup.local.sh"}

\* the branches git has checked out in a checkout other than path p
CheckedOutElsewhere(p) ==
    {MainBranch} \cup
    {wt[q] : q \in {r \in DOMAIN wt : r # p /\ IsWorktreeDir(Git, r)}}

\* C25: when git refuses to create the worktree (the branch is checked out
\* in another checkout), add exits nonzero with the create-failed error:
\* no worktree and no settings directory is at the target path, nothing
\* was copied there, and no setup script was looked for or run.
C25_CreateFailureStopsAdd ==
    [][ ( /\ last'.cmd = "add"
          /\ last'.path # NoPath
          /\ last'.force \/ ~isNonEmptyDirectory(Git, last'.path)
          /\ last'.branch \in CheckedOutElsewhere(last'.path) ) =>
            /\ last'.exit # 0
            /\ last'.out = {"Error: Failed to create worktree"}
            /\ ~last'.created
            /\ last'.script = NoValue
            /\ last'.scriptCwd = NoPath
            /\ last'.path \notin DOMAIN wt'
            /\ last'.path \notin DOMAIN settings' ]_vars

C25_Witness ==
    /\ last.cmd = "add"
    /\ last.out = {"Error: Failed to create worktree"}
    /\ last.branch \in Range(wt)
    /\ last.path \notin DOMAIN wt

\* the errors of the checks that precede every call that changes git
PreflightErrors ==
    {"Error: Directory already exists and is non-empty",
     "Error: Worktree does not exist",
     "Error: Branch already exists",
     "Error: Worktree is not in the managed worktree directory"}

\* C29: an add, remove or rename that stops at one of its pre-flight
\* checks leaves the mapping files and the directories under the bases
\* exactly as they were.
C29_PreflightFailureChangesNothing ==
    [][ (last'.out \cap PreflightErrors # {}) =>
            UNCHANGED <<mapping, dirs, baseDirs>> ]_vars

----------------------------------------------------------------------------
(* Properties of rename's naming and of what rename refuses                *)

\* the rename invocation got as far as a target worktree and a new name
RenameResolved(rec) == rec.cmd = "rename" /\ rec.path # NoPath

\* C15: with no explicit new name, rename's new name is <stem>-<k> for the
\* least k, counting from n+1 when the current name is <stem>-<n> and from
\* 1 otherwise, that names no existing local branch; so the computed name
\* is never an existing branch.
C15_ComputedNameIsNextFree ==
    [][ (RenameResolved(last') /\ ~last'.explicit) =>
            LET current == last'.branch
                start == IF current.num = NoNum THEN 1 ELSE current.num + 1
                new == last'.newBranch
            IN  /\ new.stem = current.stem
                /\ new.num >= start
                /\ new \notin branches
                /\ \A k \in start..(new.num - 1) :
                       Name(current.stem, k) \in branches ]_vars

C15_Witness ==
    /\ RenameResolved(last)
    /\ ~last.explicit
    /\ last.exit = 0
    /\ last.branch = Name("feature", NoNum)
    /\ last.newBranch = Name("feature", 2)
    /\ branches = {MainBranch, Name("feature", 1), Name("feature", 2)}

\* C16: when the new name, given or computed, is an existing local branch,
\* rename exits nonzero with the branch-exists error, and no branch is
\* renamed and no worktree moved.
C16_ExistingNameRefused ==
    [][ (RenameResolved(last') /\ last'.newBranch \in branches) =>
            /\ last'.exit # 0
            /\ last'.out = {"Error: Branch already exists"}
            /\ UNCHANGED <<branches, wt, dirs, settings>> ]_vars

C16_Witness ==
    /\ RenameResolved(last)
    /\ last.explicit
    /\ last.out = {"Error: Branch already exists"}
    /\ last.newBranch \in branches
    /\ last.newBranch # last.branch
    /\ last.path \in DOMAIN wt
    /\ wt[last.path] = last.branch

\* C17: no rename, from the main checkout or from a worktree, renames the
\* branch of the main checkout or acts on the main checkout's directory;
\* a rename that names the main checkout's branch stops with the
\* cannot-rename-main error and changes nothing.
C17_MainCheckoutNeverRenamed ==
    [][ last'.cmd = "rename" =>
            /\ MainBranch \in branches'
            /\ last'.branch = MainBranch =>
                   (last'.exit # 0 /\ UNCHANGED <<gitVars, fsVars>>)
            /\ last'.path # RepoRootPath
            /\ (last'.cwd = InMain /\ last'.arg1 = MainBranch) =>
                   /\ last'.exit # 0
                   /\ last'.out =
                          {"Error: Cannot rename the main repository worktree"}
                   /\ UNCHANGED <<gitVars, fsVars>> ]_vars

C17_Witness ==
    /\ last.cmd = "rename"
    /\ last.cwd = InMain
    /\ last.arg1 = MainBranch
    /\ last.exit # 0
    /\ wt # EmptyFn

\* the path lies in the directory <base>/<folder>
Under(p, baseDir) == p.base = baseDir.base /\ p.folder = baseDir.folder

\* C18: rename moves a worktree only when its path lies under the resolved
\* worktree base directory <base>/<folderName>; for a worktree anywhere
\* else (and a new name that is free) it stops with the unmanaged-worktree
\* error, and branches, worktrees and directories stay as they were.
C18_OnlyManagedWorktreesMove ==
    [][ ( /\ RenameResolved(last')
          /\ last'.newBranch \notin branches
          /\ ~Under(last'.path, last'.managedBase) ) =>
            /\ last'.exit # 0
            /\ last'.out =
                   {"Error: Worktree is not in the managed worktree directory"}
            /\ UNCHANGED <<branches, wt, dirs, settings>> ]_vars

----------------------------------------------------------------------------
(* Properties of remove                                                     *)

\* C19: remove without force of a worktree that holds uncommitted or
\* untracked content exits nonzero with the uncommitted-changes error and
\* leaves the worktree as it is; with force the worktree is removed
\* whatever it holds.
C19_DirtyWorktreeNeedsForce ==
    [][ ( /\ last'.cmd = "rm"
          /\ last'.path \in DOMAIN wt
          /\ IsWorktreeDir(Git, last'.path)
          /\ dirs[last'.path] # {Tree} ) =>
            IF last'.force
            THEN /\ last'.exit = 0
                 /\ last'.path \notin DOMAIN wt'
                 /\ last'.path \notin DOMAIN dirs'
            ELSE /\ last'.exit # 0
                 /\ last'.out = {"Error: Worktree has uncommitted changes."}
                 /\ UNCHANGED <<branches, wt, dirs, settings>> ]_vars

C19_Witness ==
    /\ last.cmd = "rm"
    /\ ~last.force
    /\ last.exit # 0
    /\ last.path \in DOMAIN wt
    /\ IsWorktreeDir(Git, last.path)
    /\ Untracked \in dirs[last.path]

\* C21: a remove that exits nonzero, because there is no worktree at the
\* expected path or because the worktree's removal fails, has deleted no
\* branch: the branch it names, when it existed, still exists.
C21_FailedRemoveKeepsBranch ==
    [][ (last'.cmd = "rm" /\ last'.exit # 0) =>
            /\ branches' = branches
            /\ last'.branch \in branches => last'.branch \in branches' ]_vars

C21_Witness ==
    /\ last.cmd = "rm"
    /\ last.out = {"Error: Worktree does not exist"}
    /\ last.exit # 0
    /\ last.branch \in branches
    /\ last.branch \notin Range(wt)

\* C20: when remove has removed the worktree and the deletion of the
\* branch fails, the failure is printed as a warning only, remove exits
\* zero, and the worktree stays removed.
C20_DeleteFailureIsWarning ==
    (last.cmd = "rm" /\ last.removed /\ ~last.deleted) =>
        /\ last.exit = 0
        /\ last.out = {"Worktree and branch removed",
                       "Warning: Could not delete branch"}
        /\ last.path \notin DOMAIN wt
        /\ last.path \notin DOMAIN dirs

C20_Witness ==
    /\ last.cmd = "rm"
    /\ last.removed
    /\ ~last.deleted
    /\ last.branch \in branches
    /\ last.path \notin DOMAIN dirs

----------------------------------------------------------------------------
(* Properties of the commands run from a linked worktree                    *)

\* C30: add and rm resolve the same worktree path, under the same
\* <base>/<folder>, and leave the same mapping file behind whether they run
\* in the main checkout or inside one of its linked worktrees, with or
\* without a remote: a run from a linked worktree writes no mapping entry
\* that the run from the main checkout would not write.
C30_SameFolderFromEveryCheckout ==
    [][ (last'.cmd \in {"add", "rm"} /\ last'.path # NoPath) =>
            LET fromMain == getWorktreePath(mapping, last'.base, last'.branch,
                                            InMain, last'.dirname)
            IN  /\ last'.path = fromMain.path
                /\ mapping' = fromMain.mapping ]_vars

ConfigErrors == {"Error: Config file not found", ParseError}

\* C22: a command that is run without --config never fails on the
\* configuration: whatever the tracked config, the local-override config
\* and the mapping file hold, absent, present or malformed, it prints no
\* configuration error.
C22_NoConfigErrorWithoutConfigFlag ==
    (last.cmd \in {"list", "add", "rm", "rename"} /\ ~last.flags.config) =>
        last.out \cap ConfigErrors = {}

\* C26: a rename run at the root of a linked worktree or in a directory
\* below it is about that worktree and the branch checked out in it, and
\* its first argument, when given, is the new name.
C26_WorktreeModeAnywhereInside ==
    [][ ( /\ last'.cmd = "rename"
          /\ last'.cwd.at \in {"worktree", "subdir"}
          /\ last'.cwd.path \in DOMAIN wt ) =>
            /\ last'.path = last'.cwd.path
            /\ last'.branch = wt[last'.cwd.path]
            /\ last'.arg1 # NoName => last'.newBranch = last'.arg1 ]_vars

\* C28: after a successful rename of a worktree that lies under the
\* resolved <base>/<folder> to the new branch name N, the worktree is
\* registered at <base>/<folder>/N with branch N and its directory is
\* there, whether or not the old or the new name contains "/".
C28_RenamedWorktreeAtCanonicalPath ==
    [][ ( /\ RenameResolved(last')
          /\ last'.exit = 0
          /\ Under(last'.path, last'.managedBase) ) =>
            LET canonical == [base   |-> last'.managedBase.base,
                              folder |-> last'.managedBase.folder,
                              leaf   |-> last'.newBranch]
            IN  /\ last'.newPath = canonical
                /\ canonical \in DOMAIN wt'
                /\ wt'[canonical] = last'.newBranch
                /\ canonical \in DOMAIN dirs' ]_vars

----------------------------------------------------------------------------
(* Properties of the mapping file under invocations that run together      *)

\* C23: whenever some invocation has written the mapping file, the file
\* holds exactly what the last writer had read plus the last writer's own
\* entry; so the entry of an earlier writer that the last writer had not
\* read (it read before that writer wrote) is lost.
C23_LastWriterWins ==
    race.order # <<>> =>
        LET w == race.order[Len(race.order)]
            file == mapping[DEFAULT_BASE].entries
        IN  /\ file = (w :> RaceName(w, race.op[w])) @@ race.snap[w]
            /\ \A i \in 1..(Len(race.order) - 1) :
                   race.order[i] \notin DOMAIN race.snap[w] =>
                       race.order[i] \notin DOMAIN file

C23_Witness ==
    /\ \A id \in RaceRepos : id \in DOMAIN race.pc /\ race.pc[id] = "done"
    /\ Len(race.order) = 3
    /\ DOMAIN mapping[DEFAULT_BASE].entries = {race.order[3]}

============================================================================
